---- MODULE Spec2Model ----
(***************************************************************************)
(* Model of gazenet.py: the GazeNet training script.  The script parses    *)
(* its arguments, refuses an existing output directory, builds the two     *)
(* data loaders, and then alternates train(netGaze, i) and val(netGaze)    *)
(* for i = 1..epochs.  val() keeps the best validation accuracy in the     *)
(* global best_accuracy and, on a strictly better accuracy, saves the      *)
(* model state and plots a row-normalised confusion matrix.                *)
(*                                                                         *)
(* Abstractions.  The network is a black box: its parameter state is       *)
(* identified by its position in the SGD trajectory (the number of         *)
(* optimizer.step() calls applied so far), its predictions are arbitrary   *)
(* class labels, and a loss value is the uninterpreted term                *)
(* [params, batch].  Floats of the form 100.0 * c / n are kept as exact    *)
(* fractions [num, den].  The shuffling loaders deliver the examples in    *)
(* any order.  The curves train_loss and train_acc of __main__ only feed   *)
(* the plots and are not kept; the plots are kept as file names.           *)
(***************************************************************************)
EXTENDS Integers, Sequences, FiniteSets

\* Bounds of the model (inputs are drawn from 0..Max or 1..Max).
MaxEpochs == 2
MaxBatchSize == 2
MaxLogSchedule == 2
MaxTrainSize == 3
MaxValSize == 2

\* Output class labels.  The script lists nine; the model keeps the first two,
\* the labels 0 and 1 of the datasets.
activity_classes == <<"Eyes Closed", "Forward">>

\* args.num_classes
num_classes == Len(activity_classes)

VARIABLES
    pc,             \* position of the script
    error,          \* the exception that ended the run, or "none"
    dirExists,      \* os.path.exists(args.output_dir) before the run
    files,          \* names of the files the run wrote below args.output_dir
    ckpt,           \* checkpoint files: path -> saved model state
    args,           \* parsed command line
    train_len,      \* len(train_loader.dataset)
    val_set,        \* validation dataset: class label -> number of examples
    best_accuracy,  \* global best_accuracy
    params,         \* netGaze parameter state
    mode,           \* netGaze.training: "train" or "eval"
    i,              \* loop variable of the epoch loop
    b_idx,          \* batch index inside train() / val()
    consumed,       \* examples the current pass has taken from its loader
    correct,        \* local correct of train() / val()
    epoch_loss,     \* local epoch_loss of train()
    progress,       \* progress lines printed by the current train() call
    remaining,      \* validation examples the current pass has not seen yet
    pred_all,       \* local pred_all of val()
    target_all,     \* local target_all of val()
    cm,             \* matrix drawn by plot_confusion_matrix, NoMatrix if none
    val_accuracy,   \* value val() returns
    val_acc,        \* list val_acc of __main__
    calls,          \* history: the train / val calls made so far
    endParams,      \* history: params at the return of each train() call
    valParams,      \* history: params at the entry of the current val() call
    savedAt,        \* history: epochs whose val() called torch.save
    renderedAt      \* history: epochs whose val() called plot_confusion_matrix

vars == <<pc, error, dirExists, files, ckpt, args, train_len, val_set,
          best_accuracy, params, mode, i, b_idx, consumed, correct,
          epoch_loss, progress, remaining, pred_all, target_all, cm,
          val_accuracy, val_acc, calls, endParams,
          valParams, savedAt, renderedAt>>

\* The integer labels of the classes.
Classes == 0..(num_classes - 1)

Min(a, b) == IF a < b THEN a ELSE b

\* A float c / n kept exact.
Frac(n, d) == [num |-> n, den |-> d]

\* a > b on fractions with positive denominators.
Gt(a, b) == a.num * b.den > b.num * a.den

RECURSIVE SumOver(_, _)
SumOver(f, S) ==
    IF S = {} THEN 0
    ELSE LET x == CHOOSE y \in S : TRUE
         IN  f[x] + SumOver(f, S \ {x})

\* Number of examples in a dataset given as class -> count.
BagSize(bag) == SumOver(bag, DOMAIN bag)

\* Number of positions of seq holding c.
Count(seq, c) == Cardinality({k \in DOMAIN seq : seq[k] = c})

\* Values occurring in a sequence.
Range(seq) == {seq[k] : k \in DOMAIN seq}

\* pred.eq(target).sum()
Matches(pred, target) ==
    Cardinality({k \in DOMAIN pred : pred[k] = target[k]})


\* cm = confusion_matrix(y_true, y_pred): sklearn counts, for the sorted
\* labels that occur in y_true or y_pred, the examples of true label r
\* predicted as label c.
confusion_matrix(y_true, y_pred) ==
    LET labels == Range(y_true) \cup Range(y_pred)
    IN  [labels |-> labels,
         cell |-> [p \in labels \X labels |->
                     Cardinality({k \in DOMAIN y_true :
                                    y_true[k] = p[1] /\ y_pred[k] = p[2]})]]

\* cm.sum(axis=1)
RowSum(m, r) == SumOver([c \in m.labels |-> m.cell[<<r, c>>]], m.labels)

\* cm.astype('float') / cm.sum(axis=1)[:, np.newaxis]: every cell is divided
\* by the sum of its row, whatever that sum is.
Normalize(m) ==
    [labels |-> m.labels,
     cell |-> [p \in m.labels \X m.labels |-> Frac(m.cell[p], RowSum(m, p[1]))]]

\* The matrix plot_confusion_matrix(y_true, y_pred, classes) draws
\* (normalize=True).
plot_confusion_matrix(y_true, y_pred) ==
    Normalize(confusion_matrix(y_true, y_pred))

\* No matrix computed.
NoMatrix == [labels |-> {}, cell |-> <<>>]


\* The batch assigned instead of appended.
NpAppend_Overwrite(all, batch) == batch

\* np.append(all, batch)
NpAppend(all, batch) == all \o batch


\* The step taken twice for one batch.
OptimizerStep_Twice(p) == p + 2

\* optimizer.step(): the next point of the SGD trajectory.
OptimizerStep(p) == p + 1

\* loss.item() of the batch b computed with parameters p.
Loss(p, b) == [params |-> p, batch |-> b]

\* The progress line of batch b (of n examples) in epoch e: epoch, examples
\* processed, total.
ProgressLine(e, b, n, total) ==
    [epoch |-> e, batch |-> b, processed |-> (b + 1) * n, total |-> total]

\* b_idx % args.log_schedule == 0
IsLogged(b, k) == b % k = 0


\* A comparison that also accepts a tie.
IsNewBest_Tie(acc, best) == ~Gt(best, acc)

\* val_accuracy > best_accuracy
IsNewBest(acc, best) == Gt(acc, best)


\* The assignment lost (a local best_accuracy instead of the global).
UpdatedBest_Stale(acc, best) == best

\* best_accuracy = val_accuracy
UpdatedBest(acc, best) == acc


\* A save that leaves an existing file as it is.
TorchSave_KeepExisting(fs, path, state) ==
    IF \E f \in fs : f.path = path
    THEN fs
    ELSE fs \cup {[path |-> path, state |-> state]}

\* torch.save(state, path): the file at path is created or overwritten.
TorchSave(fs, path, state) ==
    {f \in fs : f.path # path} \cup {[path |-> path, state |-> state]}


\* range(1, args.epochs)
EpochRange_Short(n) == 1..(n - 1)

\* range(1, args.epochs + 1)
EpochRange(n) == 1..n


\* The existence check dropped (os.makedirs(..., exist_ok=True)).
OutputDirTaken_Ignored(exists) == FALSE

\* os.path.exists(args.output_dir), line 54
OutputDirTaken(exists) == exists

Versions == {"None", "1_0", "1_1", "2_0"}

\* What parse_args() can return (the fields the script branches on).
ArgsSet ==
    [dataset_root_path : {"None", "data"},
     version : Versions,
     epochs : 0..MaxEpochs,
     batch_size : 1..MaxBatchSize,
     log_schedule : 1..MaxLogSchedule]

\* Validation datasets: class label -> number of examples.
ValSets == {b \in [Classes -> 0..MaxValSize] : BagSize(b) <= MaxValSize}

EmptyBag == [c \in Classes |-> 0]

Init ==
    /\ pc = "start"
    /\ error = "none"
    /\ dirExists \in BOOLEAN
    /\ files = {}
    /\ ckpt = {}
    /\ args = [dataset_root_path |-> "None", version |-> "None", epochs |-> 0,
               batch_size |-> 1, log_schedule |-> 1]
    /\ train_len = 0
    /\ val_set = EmptyBag
    /\ best_accuracy = Frac(0, 1)
    /\ params = 0
    /\ mode = "train"
    /\ i = 1
    /\ b_idx = 0
    /\ consumed = 0
    /\ correct = 0
    /\ epoch_loss = <<>>
    /\ progress = <<>>
    /\ remaining = EmptyBag
    /\ pred_all = <<>>
    /\ target_all = <<>>
    /\ cm = NoMatrix
    /\ val_accuracy = Frac(0, 1)
    /\ val_acc = <<>>
    /\ calls = <<>>
    /\ endParams = <<>>
    /\ valParams = 0
    /\ savedAt = {}
    /\ renderedAt = {}

\* The run ends with an exception.
Fail(e) ==
    /\ pc' = "failed"
    /\ error' = e

\* Lines 37-66: parse and check the arguments, claim the output directory,
\* store config.json.
Startup ==
    /\ pc = "start"
    /\ \E a \in ArgsSet :
         /\ args' = a
         /\ IF a.dataset_root_path = "None"
            THEN Fail("Path to dataset not provided!") /\ files' = files
            ELSE IF a.version \notin {"1_0", "1_1"}
            THEN Fail("Model version not recognized!") /\ files' = files
            ELSE IF OutputDirTaken(dirExists)
            THEN Fail("Output directory already exists!") /\ files' = files
            ELSE /\ pc' = "setup"
                 /\ error' = error
                 /\ files' = files \cup {"config.json"}
    /\ UNCHANGED <<dirExists, ckpt, train_len, val_set, best_accuracy, params,
                   mode, i, b_idx, consumed, correct, epoch_loss, progress,
                   remaining, pred_all, target_all, cm, val_accuracy, val_acc,
                   calls, endParams, valParams, savedAt, renderedAt>>

\* Lines 115-120 and 212-233: the loaders, best_accuracy, the network, the
\* optimizer and the empty curves.
Setup ==
    /\ pc = "setup"
    /\ train_len' \in 0..MaxTrainSize
    /\ val_set' \in ValSets
    /\ best_accuracy' = Frac(0, 1)
    /\ params' = 0
    /\ mode' = "train"
    /\ val_acc' = <<>>
    /\ i' = 1
    /\ pc' = "loop"
    /\ UNCHANGED <<error, dirExists, files, ckpt, args, b_idx, consumed,
                   correct, epoch_loss, progress, remaining, pred_all,
                   target_all, cm, val_accuracy, calls, endParams, valParams,
                   savedAt, renderedAt>>

\* Lines 234-235 and 125-127: the loop enters epoch i and calls train().
TrainBegin ==
    /\ pc = "loop"
    /\ i \in EpochRange(args.epochs)
    /\ pc' = "train"
    /\ epoch_loss' = <<>>
    /\ correct' = 0
    /\ mode' = "train"
    /\ b_idx' = 0
    /\ consumed' = 0
    /\ progress' = <<>>
    /\ calls' = Append(calls, <<"train", i>>)
    /\ UNCHANGED <<error, dirExists, files, ckpt, args, train_len, val_set,
                   best_accuracy, params, i, remaining, pred_all, target_all,
                   cm, val_accuracy, val_acc, endParams, valParams, savedAt,
                   renderedAt>>

\* Lines 128-156: one training batch.
TrainBatch ==
    /\ pc = "train"
    /\ consumed < train_len
    /\ LET n == Min(args.batch_size, train_len - consumed)
           logged == IsLogged(b_idx, args.log_schedule)
       IN  /\ \E c \in 0..n : correct' = correct + c
           /\ epoch_loss' = Append(epoch_loss, Loss(params, b_idx))
           /\ params' = OptimizerStep(params)
           /\ progress' = IF logged
                          THEN Append(progress,
                                      ProgressLine(i, b_idx, n, train_len))
                          ELSE progress
           /\ files' = IF logged THEN files \cup {"logs.txt"} ELSE files
           /\ consumed' = consumed + n
    /\ b_idx' = b_idx + 1
    /\ UNCHANGED <<pc, error, dirExists, ckpt, args, train_len, val_set,
                   best_accuracy, mode, i, remaining, pred_all, target_all,
                   cm, val_accuracy, val_acc, calls, endParams, valParams,
                   savedAt, renderedAt>>

\* Lines 158-169 and 235-242: the statistics of the epoch, the return to
\* __main__ and the loss curve.
TrainEnd ==
    /\ pc = "train"
    /\ consumed = train_len
    /\ IF epoch_loss = <<>>
       THEN /\ Fail("StatisticsError")
            /\ UNCHANGED <<files, endParams, b_idx, consumed, correct,
                           epoch_loss, progress>>
       ELSE /\ pc' = "main"
            /\ error' = error
            /\ files' = files \cup {"logs.txt", "train_loss.jpg"}
            /\ endParams' = Append(endParams, params)
            /\ b_idx' = 0
            /\ consumed' = 0
            /\ correct' = 0
            /\ epoch_loss' = <<>>
            /\ progress' = <<>>
    /\ UNCHANGED <<dirExists, ckpt, args, train_len, val_set, best_accuracy,
                   params, mode, i, remaining, pred_all, target_all, cm,
                   val_accuracy, val_acc, calls, valParams, savedAt,
                   renderedAt>>

\* Lines 243 and 174-178: __main__ calls val().
ValBegin ==
    /\ pc = "main"
    /\ pc' = "val"
    /\ correct' = 0
    /\ mode' = "eval"
    /\ pred_all' = <<>>
    /\ target_all' = <<>>
    /\ b_idx' = 0
    /\ consumed' = 0
    /\ remaining' = val_set
    /\ valParams' = params
    /\ calls' = Append(calls, <<"val", i>>)
    /\ UNCHANGED <<error, dirExists, files, ckpt, args, train_len, val_set,
                   best_accuracy, params, i, epoch_loss, progress, cm,
                   val_accuracy, val_acc, endParams, savedAt, renderedAt>>

\* Lines 180-192: one validation batch.
ValBatch ==
    /\ pc = "val"
    /\ BagSize(remaining) > 0
    /\ LET n == Min(args.batch_size, BagSize(remaining))
       IN  \E target \in [1..n -> Classes] :
             /\ \A c \in Classes : Count(target, c) <= remaining[c]
             /\ \E pred \in [1..n -> Classes] :
                  /\ correct' = correct + Matches(pred, target)
                  /\ pred_all' = NpAppend(pred_all, pred)
                  /\ target_all' = NpAppend(target_all, target)
             /\ remaining' = [c \in Classes |->
                                remaining[c] - Count(target, c)]
             /\ consumed' = consumed + n
    /\ b_idx' = b_idx + 1
    /\ UNCHANGED <<pc, error, dirExists, files, ckpt, args, train_len,
                   val_set, best_accuracy, params, mode, i, epoch_loss,
                   progress, cm, val_accuracy, val_acc, calls, endParams,
                   valParams, savedAt, renderedAt>>

\* Lines 194-208: the validation accuracy and the best-model decision.
ValEnd ==
    /\ pc = "val"
    /\ BagSize(remaining) = 0
    /\ IF BagSize(val_set) = 0
       THEN /\ Fail("ZeroDivisionError")
            /\ UNCHANGED <<files, ckpt, best_accuracy, cm, val_accuracy,
                           savedAt, renderedAt>>
       ELSE LET acc == Frac(100 * correct, BagSize(val_set))
            IN  /\ pc' = "valret"
                /\ error' = error
                /\ val_accuracy' = acc
                /\ IF IsNewBest(acc, best_accuracy)
                   THEN /\ best_accuracy' = UpdatedBest(acc, best_accuracy)
                        /\ ckpt' = TorchSave(ckpt, "netGaze.pth", params)
                        /\ cm' = plot_confusion_matrix(target_all, pred_all)
                        /\ files' = files \cup {"logs.txt", "netGaze.pth",
                                                "confusion_matrix.jpg"}
                        /\ savedAt' = savedAt \cup {i}
                        /\ renderedAt' = renderedAt \cup {i}
                   ELSE /\ files' = files \cup {"logs.txt"}
                        /\ UNCHANGED <<best_accuracy, ckpt, cm, savedAt,
                                       renderedAt>>
    /\ UNCHANGED <<dirExists, args, train_len, val_set, params, mode, i,
                   b_idx, consumed, correct, epoch_loss, progress, remaining,
                   pred_all, target_all, val_acc, calls, endParams,
                   valParams>>

\* Lines 243-246: val() returns, the accuracy curves are redrawn, the loop
\* moves on.
ValReturn ==
    /\ pc = "valret"
    /\ val_acc' = Append(val_acc, val_accuracy)
    /\ files' = files \cup {"trainval_accuracy.jpg"}
    /\ i' = i + 1
    /\ pc' = "loop"
    /\ b_idx' = 0
    /\ consumed' = 0
    /\ correct' = 0
    /\ pred_all' = <<>>
    /\ target_all' = <<>>
    /\ cm' = NoMatrix
    /\ val_accuracy' = Frac(0, 1)
    /\ UNCHANGED <<error, dirExists, ckpt, args, train_len, val_set,
                   best_accuracy, params, mode, epoch_loss, progress,
                   remaining, calls, endParams, valParams, savedAt,
                   renderedAt>>

\* Line 247: the loop is exhausted.
Finish ==
    /\ pc = "loop"
    /\ i \notin EpochRange(args.epochs)
    /\ pc' = "done"
    /\ UNCHANGED <<error, dirExists, files, ckpt, args, train_len, val_set,
                   best_accuracy, params, mode, i, b_idx, consumed, correct,
                   epoch_loss, progress, remaining, pred_all, target_all, cm,
                   val_accuracy, val_acc, calls, endParams, valParams,
                   savedAt, renderedAt>>

Next ==
    \/ Startup
    \/ Setup
    \/ TrainBegin
    \/ TrainBatch
    \/ TrainEnd
    \/ ValBegin
    \/ ValBatch
    \/ ValEnd
    \/ ValReturn
    \/ Finish

Spec == Init /\ [][Next]_vars


(***************************************************************************)
(* Vocabulary of the properties.                                           *)
(***************************************************************************)

\* a = b on fractions with positive denominators.
FracEq(a, b) == a.num * b.den = b.num * a.den

\* The accuracies of the val() calls completed so far: those __main__ has
\* appended, and the one a returning val() is handing over.
Returned ==
    IF pc = "valret" THEN Append(val_acc, val_accuracy) ELSE val_acc

\* The maximum of 0 and the first k entries of accs.
RECURSIVE RunMax(_, _)
RunMax(accs, k) ==
    IF k = 0 THEN Frac(0, 1)
    ELSE LET m == RunMax(accs, k - 1)
         IN  IF Gt(accs[k], m) THEN accs[k] ELSE m

\* The epochs whose accuracy strictly raises the running maximum.
Raising(accs) ==
    {e \in DOMAIN accs : Gt(accs[e], RunMax(accs, e - 1))}

\* The calls of a run of n epochs.
ExpectedCalls(n) ==
    [k \in 1..(2 * n) |->
        IF k % 2 = 1 THEN <<"train", (k + 1) \div 2>> ELSE <<"val", k \div 2>>]

\* s is a prefix of t.
IsPrefix(s, t) ==
    /\ Len(s) <= Len(t)
    /\ \A k \in DOMAIN s : s[k] = t[k]

\* The arguments pass the checks of lines 39-42.
ArgsValid ==
    /\ args.dataset_root_path # "None"
    /\ args.version \in {"1_0", "1_1"}

(***************************************************************************)
(* C1.  A val() call writes the checkpoint and renders the confusion       *)
(* matrix if and only if its accuracy is strictly greater than             *)
(* best_accuracy as it stood at the comparison; no other step does either. *)
(* Of two consecutive epochs with equal validation accuracy the second     *)
(* never writes, and the first writes exactly when its accuracy exceeds    *)
(* the best accuracy before it.                                            *)
(***************************************************************************)
SaveIffStrictlyBetter ==
    /\ [][/\ (pc = "val" /\ pc' = "valret") =>
                LET better == Gt(val_accuracy', best_accuracy)
                IN  /\ (i \in savedAt' \ savedAt) <=> better
                    /\ (i \in renderedAt' \ renderedAt) <=> better
                    /\ better => /\ ckpt' = {[path |-> "netGaze.pth",
                                              state |-> params]}
                                 /\ cm' # NoMatrix
                    /\ ~better => /\ ckpt' = ckpt
                                  /\ cm' = NoMatrix
           /\ ~(pc = "val" /\ pc' = "valret") =>
                /\ savedAt' = savedAt
                /\ renderedAt' = renderedAt
                /\ ckpt' = ckpt]_vars
    /\ [](\A e \in DOMAIN Returned :
            e + 1 \in DOMAIN Returned /\ FracEq(Returned[e], Returned[e + 1]) =>
                /\ e + 1 \notin savedAt
                /\ e \in savedAt <=> Gt(Returned[e], RunMax(Returned, e - 1)))

\* A tie at a positive best accuracy: the first epoch saved, the second has
\* just compared and did not.
TieSavedOnce ==
    /\ pc = "valret"
    /\ Len(val_acc) >= 1
    /\ FracEq(val_accuracy, val_acc[Len(val_acc)])
    /\ Gt(val_accuracy, Frac(0, 1))
    /\ Len(val_acc) \in savedAt
    /\ i \notin savedAt
    /\ i \notin renderedAt

\* C1 as stated: two consecutive epochs with equal validation accuracy
\* produce exactly one checkpoint write, from the first of them.
TieAlwaysSavesOnce ==
    \A e \in DOMAIN Returned :
        e + 1 \in DOMAIN Returned /\ FracEq(Returned[e], Returned[e + 1]) =>
            /\ e \in savedAt
            /\ e + 1 \notin savedAt

(***************************************************************************)
(* C2.  best_accuracy starts at 0 and never decreases; after every         *)
(* completed val() call it equals the maximum of 0 and the accuracies      *)
(* returned so far, and the epochs that wrote a checkpoint are exactly     *)
(* those whose accuracy strictly raises that running maximum.              *)
(***************************************************************************)
BestIsRunningMax ==
    /\ [](/\ Returned = <<>> => best_accuracy = Frac(0, 1)
          /\ FracEq(best_accuracy, RunMax(Returned, Len(Returned)))
          /\ savedAt = Raising(Returned))
    /\ [][~Gt(best_accuracy, best_accuracy')]_vars

\* Two epochs, each raising the best accuracy, each saved.
TwoRaisingEpochs ==
    /\ pc = "done"
    /\ Len(val_acc) = 2
    /\ Gt(val_acc[1], Frac(0, 1))
    /\ Gt(val_acc[2], val_acc[1])
    /\ savedAt = {1, 2}
    /\ best_accuracy = val_acc[2]

(***************************************************************************)
(* C3.  At every epoch boundary there is at most one checkpoint file, and  *)
(* when it exists it holds the parameters as they were at the end of       *)
(* training of the earliest epoch whose validation accuracy equals         *)
(* best_accuracy; an epoch that only ties the best never replaces it.      *)
(***************************************************************************)
CheckpointIsEarliestBest ==
    pc \in {"loop", "done"} =>
        /\ Cardinality(ckpt) <= 1
        /\ \A f \in ckpt :
             \E e \in DOMAIN val_acc :
                /\ FracEq(val_acc[e], best_accuracy)
                /\ \A d \in 1..(e - 1) : ~FracEq(val_acc[d], best_accuracy)
                /\ f.state = endParams[e]

\* After two epochs with the same positive accuracy the checkpoint still
\* holds the parameters of the first, not those of the second.
TieKeepsFirstCheckpoint ==
    /\ pc = "loop"
    /\ Len(val_acc) = 2
    /\ FracEq(val_acc[1], val_acc[2])
    /\ endParams[1] # endParams[2]
    /\ ckpt = {[path |-> "netGaze.pth", state |-> endParams[1]]}

(***************************************************************************)
(* C4.  The calls made are at every moment a prefix of train(1), val,      *)
(* train(2), val, ..., train(N), val, and the whole of it when the run     *)
(* completes; a run that has not failed can always go on until then.       *)
(* While val() of epoch i runs, the parameters are those the train() call  *)
(* of epoch i returned, and no later train() call has been made.           *)
(***************************************************************************)
TrainThenValEachEpoch ==
    /\ IsPrefix(calls, ExpectedCalls(args.epochs))
    /\ pc = "done" => calls = ExpectedCalls(args.epochs)
    /\ pc \notin {"done", "failed"} => ENABLED Next
    /\ pc \in {"main", "val", "valret"} =>
         /\ Len(endParams) = i
         /\ params = endParams[i]
         /\ calls[Len(calls)] \in {<<"train", i>>, <<"val", i>>}
    /\ pc \in {"val", "valret"} => valParams = endParams[i]

\* A completed run of the largest epoch count.
CompletedAllEpochs ==
    /\ pc = "done"
    /\ error = "none"
    /\ args.epochs = MaxEpochs
    /\ Len(calls) = 2 * MaxEpochs
    /\ params > 0

(***************************************************************************)
(* C6.  During and after every validation pass the count of correct        *)
(* predictions is at most the number of examples consumed, which is at     *)
(* most the size of the validation dataset; the two logs both hold one     *)
(* entry per example consumed; every accuracy val() returns lies in        *)
(* [0, 100].                                                               *)
(***************************************************************************)
ValCountsWithinBounds ==
    /\ pc \in {"val", "valret"} =>
         /\ 0 <= correct
         /\ correct <= consumed
         /\ consumed <= BagSize(val_set)
         /\ Len(pred_all) = consumed
         /\ Len(target_all) = consumed
    /\ \A e \in DOMAIN Returned :
         /\ Returned[e].den > 0
         /\ 0 <= Returned[e].num
         /\ Returned[e].num <= 100 * Returned[e].den

\* A pass of two batches that got one of its two examples right.
TwoBatchesOneCorrect ==
    /\ pc = "valret"
    /\ b_idx = 2
    /\ consumed = 2
    /\ correct = 1
    /\ val_accuracy = Frac(100, 2)

(***************************************************************************)
(* C7.  When the output directory exists at startup the run fails before   *)
(* any training step and writes no file; when the arguments pass the       *)
(* checks of the dataset path and the model version, the failure is the    *)
(* output-directory conflict.                                              *)
(***************************************************************************)
ExistingOutputDirIsFatal ==
    (dirExists /\ pc # "start") =>
        /\ pc = "failed"
        /\ files = {}
        /\ ckpt = {}
        /\ calls = <<>>
        /\ params = 0
        /\ ArgsValid => error = "Output directory already exists!"

\* The run refused an existing output directory.
OutputDirRefused ==
    /\ dirExists
    /\ pc = "failed"
    /\ ArgsValid
    /\ error = "Output directory already exists!"
    /\ files = {}

\* C7 as stated: with an existing output directory the failure is always
\* the output-directory conflict.
ExistingOutputDirAlwaysConflict ==
    (dirExists /\ pc # "start") =>
        /\ pc = "failed"
        /\ error = "Output directory already exists!"
        /\ files = {}

(***************************************************************************)
(* C9.  No step of a val() call changes the parameters, and a checkpoint   *)
(* written by it holds the parameters the call started with.  The          *)
(* parameters change only in a training batch, by exactly one optimizer    *)
(* step per batch, batch after batch in the order of the stream.           *)
(***************************************************************************)
ValLeavesParamsAlone ==
    [][/\ pc \in {"main", "val"} =>
            /\ params' = params
            /\ pc = "val" => valParams = params
            /\ ckpt' # ckpt =>
                 ckpt' = {[path |-> "netGaze.pth", state |-> valParams]}
       /\ params' # params => (pc = "train" /\ pc' = "train")
       /\ (pc = "train" /\ pc' = "train") =>
            /\ b_idx' = b_idx + 1
            /\ params' = params + 1
            /\ epoch_loss' = Append(epoch_loss, Loss(params, b_idx))
            /\ Len(epoch_loss') = b_idx']_vars

\* A val() call that saved the parameters two training batches produced.
SavedAfterTwoSteps ==
    /\ pc = "valret"
    /\ i = 1
    /\ i \in savedAt
    /\ params = 2
    /\ valParams = 2
    /\ ckpt = {[path |-> "netGaze.pth", state |-> 2]}

(***************************************************************************)
(* C5.  An empty training or validation stream ends the run with an        *)
(* EmptyDatasetError: the run never takes the mean of zero losses          *)
(* (StatisticsError) and never divides by a dataset size of zero           *)
(* (ZeroDivisionError).                                                    *)
(***************************************************************************)
EmptyStreamRaisesEmptyDatasetError ==
    /\ error \notin {"StatisticsError", "ZeroDivisionError"}
    /\ (pc = "failed" /\ calls # <<>>) => error = "EmptyDatasetError"

(***************************************************************************)
(* C8.  In the matrix drawn on a new best no cell is the result of a       *)
(* division by zero, and every row whose true class has at least one       *)
(* validation example sums to 1.                                           *)
(***************************************************************************)
RowsNormalizedWithGuard ==
    \A r \in cm.labels :
        /\ \A c \in cm.labels : cm.cell[<<r, c>>].den # 0
        /\ Count(target_all, r) > 0 =>
             SumOver([c \in cm.labels |-> cm.cell[<<r, c>>].num], cm.labels)
                 = cm.cell[<<r, r>>].den

(***************************************************************************)
(* C10.  The progress lines of a training pass are those of the batches    *)
(* whose index is a multiple of args.log_schedule, and the examples        *)
(* processed that a line reports are the examples consumed up to and       *)
(* including its batch, never more than the dataset holds.                 *)
(***************************************************************************)
ProgressReportsExamplesConsumed ==
    pc = "train" =>
        /\ {progress[k].batch : k \in DOMAIN progress}
               = {b \in 0..(b_idx - 1) : b % args.log_schedule = 0}
        /\ \A k \in DOMAIN progress :
             /\ k > 1 => progress[k - 1].batch < progress[k].batch
             /\ progress[k].processed
                    = Min((progress[k].batch + 1) * args.batch_size, train_len)
             /\ progress[k].processed <= progress[k].total
             /\ progress[k].total = train_len

====
